---------------------------- MODULE Spec2Model ----------------------------
(***************************************************************************)
(* A model of the three algorithmic components of Dao.AI.BreakPoint's      *)
(* custom-model training code:                                             *)
(*   - MovenetExtractor (movenet_extractor.py): the crop-region tracker,   *)
(*   - SwingDetector    (swing_detector.py):    the swing segmenter,       *)
(*   - FeatureEngineer  (feature_engineer.py):  the feature builder and    *)
(*                                              the normalizer.            *)
(* Real numbers are exact.  The tracker's fractions are rationals <<n,d>>; *)
(* confidences are integers in hundredths (0.2 is 20); floating-point      *)
(* rounding is not modelled.                                               *)
(***************************************************************************)
EXTENDS Integers, Sequences, FiniteSets, TLC

VARIABLES
    \* MovenetExtractor.extract_keypoints_from_video
    image_height, image_width, num_frames, i, crop_region,
    keypoints_sequence, oracle_calls, returned, pc,
    \* the frames for which the invocation of the oracle failed
    failed_calls,
    \* SwingDetector: the configuration, the result of
    \* detect_swings_from_keypoints and the caller's position
    min_swing_duration, max_swing_duration, valid_swings, seg_pc,
    \* the quantities detect_swings_from_keypoints computed during the call
    seg_computed,
    \* process_video_to_features: the list it returns
    results,
    \* FeatureEngineer.extract_features_from_keypoints: the joint whose
    \* confidence varies in the clip, the loop's locals, the returned array
    \* and the position in the function
    focus_joint, prev_xy, prev2_xy, features_list, features_arr, fe_pc,
    \* the number of the call of extract_features_from_keypoints
    fe_call,
    \* FeatureEngineer.normalize_features: its arguments, what it returns and
    \* the position in the function
    norm_features_arr, norm_method, norm_returned, norm_pc,
    \* SwingDetector._find_continuous_segments: its argument, what it returns
    \* and the position in the function
    boolean_array, segments, runs_pc

trackVars == <<image_height, image_width, num_frames, i, crop_region,
               keypoints_sequence, oracle_calls, returned, pc, failed_calls>>

segVars == <<min_swing_duration, max_swing_duration, valid_swings, seg_pc,
             seg_computed, results>>

featVars == <<focus_joint, prev_xy, prev2_xy, features_list, features_arr, fe_pc,
              fe_call>>

normVars == <<norm_features_arr, norm_method, norm_returned, norm_pc>>

runVars == <<boolean_array, segments, runs_pc>>

vars == <<trackVars, segVars, featVars, normVars, runVars>>

---------------------------------------------------------------------------
\* Bounds of the model.
MaxDim == 2             \* image height and width range over 1..MaxDim
MaxVideoFrames == 3     \* a video has 0..MaxVideoFrames frames
MaxSeqFrames == 8       \* the segmenter is given 0..MaxSeqFrames frames
MaxDuration == 2        \* 1 <= min_swing_duration <= max_swing_duration <= MaxDuration
MaxClipFrames == 3      \* a clip given to the feature builder has 0..MaxClipFrames frames
MaxArrayLen == 6        \* a boolean array given to the run finder has 0..MaxArrayLen elements
MaxRows == 3           \* a matrix given to the normalizer has 1..MaxRows rows

---------------------------------------------------------------------------
\* Exact rational arithmetic: <<n, d>> with d >= 1, in lowest terms.
Abs(n) == IF n < 0 THEN -n ELSE n

RECURSIVE GCD(_, _)
GCD(a, b) == IF b = 0 THEN a ELSE GCD(b, a % b)

Rat(n, d) ==
    LET s == IF d < 0 THEN -1 ELSE 1
        g == GCD(Abs(n), Abs(d))
    IN  <<(s * n) \div g, (s * d) \div g>>

RInt(n) == <<n, 1>>
\* (operands are cross-reduced first, to keep the intermediate integers small)
RAdd(p, q) ==
    LET g == GCD(p[2], q[2])
    IN  Rat(p[1] * (q[2] \div g) + q[1] * (p[2] \div g), (p[2] \div g) * q[2])
RNeg(p) == <<-p[1], p[2]>>
RSub(p, q) == RAdd(p, RNeg(q))
RMul(p, q) ==
    LET g1 == GCD(Abs(p[1]), q[2])
        g2 == GCD(Abs(q[1]), p[2])
    IN  Rat((p[1] \div g1) * (q[1] \div g2), (p[2] \div g2) * (q[2] \div g1))
RDiv(p, q) == RMul(p, IF q[1] < 0 THEN <<-q[2], -q[1]>> ELSE <<q[2], q[1]>>)
RLt(p, q) ==
    LET g == GCD(p[2], q[2])
    IN  p[1] * (q[2] \div g) < q[1] * (p[2] \div g)
RLe(p, q) == ~RLt(q, p)
RAbs(p) == <<Abs(p[1]), p[2]>>
RMax2(p, q) == IF RLt(p, q) THEN q ELSE p
RMin2(p, q) == IF RLt(q, p) THEN q ELSE p

\* np.amax over a sequence of rationals
RECURSIVE RAmax(_)
RAmax(s) == IF Len(s) = 1 THEN s[1] ELSE RMax2(s[1], RAmax(Tail(s)))

---------------------------------------------------------------------------
\* movenet_extractor.py

MIN_CROP_KEYPOINT_SCORE == 20      \* 0.2, in hundredths

\* KEYPOINT_DICT
Joints == 0..16
left_shoulder == 5
right_shoulder == 6
left_elbow == 7
right_elbow == 8
left_wrist == 9
right_wrist == 10
left_hip == 11
right_hip == 12
left_knee == 13
right_knee == 14
left_ankle == 15
right_ankle == 16
TorsoJoints == {left_shoulder, right_shoulder, left_hip, right_hip}

\* The largest centred square inside the image (what init_crop_region would
\* return if it cropped instead of padding).
init_crop_region_inscribed(h, w) ==
    LET wide == w > h
        box_height == RInt(1) 
        box_width == IF wide THEN Rat(h, w) ELSE RInt(1)
        y_min == IF wide THEN RInt(0)
                 ELSE RDiv(RSub(Rat(h, 2), Rat(w, 2)), RInt(h))
        x_min == IF wide
                 THEN RDiv(RSub(Rat(w, 2), Rat(h, 2)), RInt(w))
                 ELSE RInt(0)
    IN  [y_min |-> y_min, x_min |-> x_min,
         y_max |-> RAdd(y_min, IF wide THEN RInt(1) ELSE Rat(w, h)),
         x_max |-> RAdd(x_min, box_width),
         height |-> IF wide THEN RInt(1) ELSE Rat(w, h), width |-> box_width]

\* init_crop_region(image_height, image_width)
init_crop_region(h, w) ==
    LET wide == w > h
        box_height == IF wide THEN Rat(w, h) ELSE RInt(1)
        box_width == IF wide THEN RInt(1) ELSE Rat(h, w)
        y_min == IF wide
                 THEN RDiv(RSub(Rat(h, 2), Rat(w, 2)), RInt(h))
                 ELSE RInt(0)
        x_min == IF wide
                 THEN RInt(0)
                 ELSE RDiv(RSub(Rat(w, 2), Rat(h, 2)), RInt(w))
    IN  [y_min |-> y_min, x_min |-> x_min,
         y_max |-> RAdd(y_min, box_height),
         x_max |-> RAdd(x_min, box_width),
         height |-> box_height, width |-> box_width]

\* torso_visible(keypoints): keypoints[j] = [y, x, c]
torso_visible(kp) ==
    /\ (kp[left_hip].c > MIN_CROP_KEYPOINT_SCORE
        \/ kp[right_hip].c > MIN_CROP_KEYPOINT_SCORE)
    /\ (kp[left_shoulder].c > MIN_CROP_KEYPOINT_SCORE
        \/ kp[right_shoulder].c > MIN_CROP_KEYPOINT_SCORE)

\* target_keypoints[joint] = [y * image_height, x * image_width]
\* (@@ <<>> makes TLC build the table once instead of on every lookup)
target_keypoints(kp, h, w) ==
    [j \in Joints |-> <<RMul(kp[j].y, RInt(h)), RMul(kp[j].x, RInt(w))>>] @@ <<>>

\* The running maximum "if dist > max: max = dist" from 0.0 over a set of joints.
RECURSIVE MaxRange(_, _, _, _)
MaxRange(js, tk, c, axis) ==
    IF js = {} THEN RInt(0)
    ELSE LET j == CHOOSE x \in js : TRUE
         IN  RMax2(RAbs(RSub(c, tk[j][axis])),
                   MaxRange(js \ {j}, tk, c, axis))

\* determine_torso_and_body_range(keypoints, target_keypoints, center_y, center_x)
determine_torso_and_body_range(kp, tk, center_y, center_x) ==
    LET body == {j \in Joints : ~(kp[j].c < MIN_CROP_KEYPOINT_SCORE)}
    IN  <<MaxRange(TorsoJoints, tk, center_y, 1),
          MaxRange(TorsoJoints, tk, center_x, 2),
          MaxRange(body, tk, center_y, 1),
          MaxRange(body, tk, center_x, 2)>>

\* center_y, center_x: the midpoint of the hips, in pixels
crop_center(tk) ==
    <<RDiv(RAdd(tk[left_hip][1], tk[right_hip][1]), RInt(2)),
      RDiv(RAdd(tk[left_hip][2], tk[right_hip][2]), RInt(2))>>

\* tmp: the four centre-to-edge distances
edge_distances(center, h, w) ==
    <<center[2], RSub(RInt(w), center[2]),
      center[1], RSub(RInt(h), center[1])>>

\* the clamp: np.amin([crop_length_half, np.amax(tmp)])
clamp_half(candidate, tmp) == RMin2(candidate, RAmax(tmp))

\* crop_length_half, after the clamp
crop_length_half(kp, tk, c, h, w) ==
    LET r == determine_torso_and_body_range(kp, tk, c[1], c[2])
        candidate == RAmax(<<RMul(r[2], Rat(19, 10)), RMul(r[1], Rat(19, 10)),
                             RMul(r[3], Rat(12, 10)), RMul(r[4], Rat(12, 10))>>)
    IN  clamp_half(candidate, edge_distances(c, h, w))

\* the defensive fallback test: crop_length_half > max(image_width, image_height) / 2
fallback_taken(half, h, w) == RLt(Rat(IF w > h THEN w ELSE h, 2), half)

\* determine_crop_region when the torso is visible: the square around the
\* hips' midpoint, or the default region when it would be too large
torso_crop_region(kp, h, w) ==
    LET tk == target_keypoints(kp, h, w)
        c == crop_center(tk)
        half == crop_length_half(kp, tk, c, h, w)
        crop_corner == <<RSub(c[1], half), RSub(c[2], half)>>
        crop_length == RMul(half, RInt(2))
        y_min == RDiv(crop_corner[1], RInt(h))
        x_min == RDiv(crop_corner[2], RInt(w))
        y_max == RDiv(RAdd(crop_corner[1], crop_length), RInt(h))
        x_max == RDiv(RAdd(crop_corner[2], crop_length), RInt(w))
    IN  IF fallback_taken(half, h, w)
        THEN init_crop_region(h, w)
        ELSE [y_min |-> y_min, x_min |-> x_min,
              y_max |-> y_max, x_max |-> x_max,
              height |-> RSub(y_max, y_min),
              width |-> RSub(x_max, x_min)]

\* determine_crop_region(keypoints, image_height, image_width)
determine_crop_region(kp, h, w) ==
    IF torso_visible(kp) THEN torso_crop_region(kp, h, w)
    ELSE init_crop_region(h, w)

\* run_inference: the remapping of the oracle's crop-relative output to
\* full-image-normalized coordinates.
run_inference(out, crop, h, w) ==
    [j \in Joints |->
        [y |-> RDiv(RAdd(RMul(crop.y_min, RInt(h)),
                         RMul(RMul(crop.height, RInt(h)), out[j].y)), RInt(h)),
         x |-> RDiv(RAdd(RMul(crop.x_min, RInt(w)),
                         RMul(RMul(crop.width, RInt(w)), out[j].x)), RInt(w)),
         c |-> out[j].c]]

\* keypoints_to_pixels: (xy, confs) with xy[j] = <<x * width, y * height>>
keypoints_to_pixels(kp, h, w) ==
    [xy |-> [j \in Joints |-> <<RMul(kp[j].x, RInt(w)), RMul(kp[j].y, RInt(h))>>],
     confs |-> [j \in Joints |-> kp[j].c]]


---------------------------------------------------------------------------
\* feature_engineer.py
\*
\* A scalar of a feature vector is a record: NaN, a number n (Num(n)), or an
\* angle kept exact as degrees(arccos(a / sqrt(b))) (k = "acosdeg").
NaN == [k |-> "nan", a |-> 0, b |-> 1]
Num(n) == [k |-> "num", a |-> n, b |-> 1]
IsNaN(v) == v.k = "nan"

conf_thresh == 20       \* 0.2, in hundredths
InvDt == 30             \* 1 / dt, dt = 1/30
None == <<>>

\* np.linalg.norm of a 2-vector with integer components.  The inputs of the
\* model are chosen so that every norm taken is an integer.
\* The common factor of the components is taken out before the root is.
ISqrt(n) == CHOOSE r \in 0..n : r * r = n
Norm(v) ==
    IF v[1] = 0 /\ v[2] = 0 THEN 0
    ELSE LET g == GCD(Abs(v[1]), Abs(v[2]))
             x == v[1] \div g
             y == v[2] \div g
         IN  g * ISqrt(x * x + y * y)

\* angle_between(a, b, c).  With exact arithmetic the cosine is within
\* [-1, 1] and np.clip leaves it as it is.
angle_between(a, b, c) ==
    LET v1 == <<a[1] - b[1], a[2] - b[2]>>
        v2 == <<c[1] - b[1], c[2] - b[2]>>
        n1sq == v1[1] * v1[1] + v1[2] * v1[2]
        n2sq == v2[1] * v2[1] + v2[2] * v2[2]
    IN  IF n1sq = 0 \/ n2sq = 0 THEN NaN
        ELSE [k |-> "acosdeg", a |-> v1[1] * v2[1] + v1[2] * v2[2],
              b |-> n1sq * n2sq]

\* vel and acc of build_frame_features, for joint j
joint_vel(prev, curr, j) ==
    IF prev = None THEN <<0, 0>>
    ELSE <<InvDt * (curr[j][1] - prev[j][1]), InvDt * (curr[j][2] - prev[j][2])>>
joint_acc(prev2, prev, curr, j) ==
    IF prev2 = None THEN <<0, 0>>
    ELSE <<InvDt * InvDt * (curr[j][1] - 2 * prev[j][1] + prev2[j][1]),
           InvDt * InvDt * (curr[j][2] - 2 * prev[j][2] + prev2[j][2])>>

\* "for j in joints": (speed, acc_mag) of joints 5..16, masked by confs[j]
kinematic_feats(prev2, prev, curr, confs) ==
    [e \in 1..24 |->
        LET j == 5 + ((e - 1) \div 2)
        IN  IF confs[j] < conf_thresh THEN NaN
            ELSE IF e % 2 = 1 THEN Num(Norm(joint_vel(prev, curr, j)))
            ELSE Num(Norm(joint_acc(prev2, prev, curr, j)))]

\* the eight angles in the order of angle_feats, as (outer, middle, outer)
AngleTriples ==
    <<<<left_shoulder, left_elbow, left_wrist>>,
      <<right_shoulder, right_elbow, right_wrist>>,
      <<left_elbow, left_shoulder, left_hip>>,
      <<right_elbow, right_shoulder, right_hip>>,
      <<left_shoulder, left_hip, left_knee>>,
      <<right_shoulder, right_hip, right_knee>>,
      <<left_hip, left_knee, left_ankle>>,
      <<right_hip, right_knee, right_ankle>>>>

\* angle_feats: each angle, masked when one of its three joints is below
\* the threshold
angle_feats(curr, confs) ==
    [e \in 1..8 |->
        LET t == AngleTriples[e]
        IN  IF confs[t[1]] < conf_thresh \/ confs[t[2]] < conf_thresh
               \/ confs[t[3]] < conf_thresh
            THEN NaN
            ELSE angle_between(curr[t[1]], curr[t[2]], curr[t[3]])]

\* pos_flat: curr_xy.flatten() masked by np.repeat(confs, 2)
pos_feats(curr, confs) ==
    [e \in 1..34 |->
        LET j == (e - 1) \div 2
        IN  IF confs[j] < conf_thresh THEN NaN
            ELSE Num(curr[j][IF e % 2 = 1 THEN 1 ELSE 2])]

\* build_frame_features with the angles put first
build_frame_features_angles_first(prev2, prev, curr, confs) ==
    angle_feats(curr, confs) \o kinematic_feats(prev2, prev, curr, confs)
        \o pos_feats(curr, confs)

\* build_frame_features with the positions left unmasked
build_frame_features_pos_unmasked(prev2, prev, curr, confs) ==
    kinematic_feats(prev2, prev, curr, confs) \o angle_feats(curr, confs)
        \o pos_feats(curr, [j \in Joints |-> 100])

\* build_frame_features(prev2_xy, prev_xy, curr_xy, confs)
build_frame_features(prev2, prev, curr, confs) ==
    kinematic_feats(prev2, prev, curr, confs) \o angle_feats(curr, confs)
        \o pos_feats(curr, confs)

\* the loop body with prev2_xy taken after prev_xy is updated
feature_loop_body_shift_late(st, frame) ==
    [features_list |->
        Append(st.features_list,
               build_frame_features(st.prev2_xy, st.prev_xy, frame.xy, frame.confs)),
     prev2_xy |-> frame.xy,
     prev_xy |-> frame.xy]

\* The body of "for curr_xy, confs in keypoints_sequence" on the loop's
\* locals st = [features_list, prev_xy, prev2_xy].
feature_loop_body(st, frame) ==
    [features_list |->
        Append(st.features_list,
               build_frame_features(st.prev2_xy, st.prev_xy, frame.xy, frame.confs)),
     prev2_xy |-> IF st.prev_xy = None THEN None ELSE st.prev_xy,
     prev_xy |-> frame.xy]

\* np.stack(features_list, axis=0), or np.array([]) for an empty list: the
\* array's shape and its rows
feature_return(fl) ==
    IF Len(fl) > 0
    THEN [shape |-> <<Len(fl), Len(fl[1])>>, rows |-> fl]
    ELSE [shape |-> <<0>>, rows |-> <<>>]

RECURSIVE FeatureLoop(_, _, _)
FeatureLoop(kps, t, st) ==
    IF t > Len(kps) THEN st
    ELSE FeatureLoop(kps, t + 1, feature_loop_body(st, kps[t]))

\* extract_features_from_keypoints(keypoints_sequence)
extract_features_from_keypoints(kps) ==
    feature_return(
        FeatureLoop(kps, 1, [features_list |-> <<>>, prev_xy |-> None,
                             prev2_xy |-> None]).features_list)

\* The frames given to the feature builder.  Joint j stands at BasePos(j),
\* moved by shift * (j % 3) * (3, 4); the left wrist stands where the left
\* elbow is after a shift of 1, so that the left-elbow angle can be
\* degenerate.  All confidences are high but those of the focus joint f,
\* which follow the pattern.
BasePos(j) ==
    IF j = left_wrist
    THEN <<10 * left_elbow + 3, 5 * (left_elbow % 4) + 4>>
    ELSE <<10 * j, 5 * (j % 4)>>

Shifts == {0, 1}
FocusJoints == {0, left_elbow, left_wrist, left_hip}
\* the calls made one after the other, on one clip each
Calls == {1, 2}
FocusPatterns == {"clear", "low", "at_threshold"}

FeatFrame(f, shift, pat) ==
    [xy |-> [j \in Joints |-> <<BasePos(j)[1] + 3 * shift * (j % 3),
                                BasePos(j)[2] + 4 * shift * (j % 3)>>],
     confs |-> [j \in Joints |->
                  CASE pat = "low" /\ j = f -> 10
                    [] pat = "at_threshold" /\ j = f -> 20
                    [] OTHER -> 90]]

RunOff ==
    /\ boolean_array = <<>> /\ segments = <<>> /\ runs_pc = "off"

NormOff ==
    /\ norm_features_arr = <<>> /\ norm_method = "" /\ norm_returned = <<>>
    /\ norm_pc = "off"

FeatOff ==
    /\ focus_joint = 0 /\ prev_xy = None /\ prev2_xy = None
    /\ features_list = <<>> /\ features_arr = <<>> /\ fe_pc = "off"
    /\ fe_call = 0

FeatInit ==
    /\ image_height = 0 /\ image_width = 0 /\ num_frames = 0 /\ i = 0
    /\ crop_region = <<>> /\ oracle_calls = <<>> /\ failed_calls = <<>> /\ returned = <<>>
    /\ pc = "off"
    /\ min_swing_duration = 0 /\ max_swing_duration = 0
    /\ valid_swings = <<>> /\ seg_pc = "off" /\ results = <<>>
    /\ seg_computed = {}
    /\ keypoints_sequence = <<>>
    /\ focus_joint \in FocusJoints
    /\ prev_xy = None /\ prev2_xy = None
    /\ features_list = <<>>
    /\ features_arr = <<>>
    /\ fe_pc = "loop"
    /\ fe_call = 1
    /\ NormOff
    /\ RunOff

\* One iteration of "for curr_xy, confs in keypoints_sequence"; the frames
\* read so far are kept in keypoints_sequence.
FeatLoopBody ==
    /\ fe_pc = "loop"
    /\ Len(keypoints_sequence) < MaxClipFrames
    /\ \E shift \in Shifts, pat \in FocusPatterns :
          LET frame == FeatFrame(focus_joint, shift, pat)
              st == feature_loop_body(
                        [features_list |-> features_list, prev_xy |-> prev_xy,
                         prev2_xy |-> prev2_xy], frame)
          IN  /\ keypoints_sequence' = Append(keypoints_sequence, frame)
              /\ features_list' = st.features_list
              /\ prev_xy' = st.prev_xy
              /\ prev2_xy' = st.prev2_xy
    /\ UNCHANGED <<image_height, image_width, num_frames, i, crop_region,
                   oracle_calls, failed_calls, returned, pc, segVars,
                   focus_joint, features_arr, fe_pc, fe_call, normVars, runVars>>

\* The input is exhausted: np.stack(features_list) or np.array([]) is returned.
FeatReturn ==
    /\ fe_pc = "loop"
    /\ features_arr' = feature_return(features_list)
    /\ fe_pc' = "returned"
    /\ UNCHANGED <<trackVars, segVars, focus_joint, prev_xy, prev2_xy,
                   features_list, fe_call, normVars, runVars>>

\* extract_features_from_keypoints is called again, on the next clip: its
\* locals are initialised ("features_list = []", "prev_xy = None",
\* "prev2_xy = None"); the array of the call before is with the caller.
FeatCallAgain ==
    /\ fe_pc = "returned"
    /\ fe_call + 1 \in Calls
    /\ fe_call' = fe_call + 1
    /\ keypoints_sequence' = <<>>
    /\ features_list' = <<>>
    /\ prev_xy' = None
    /\ prev2_xy' = None
    /\ features_arr' = <<>>
    /\ fe_pc' = "loop"
    /\ UNCHANGED <<image_height, image_width, num_frames, i, crop_region,
                   oracle_calls, failed_calls, returned, pc, segVars,
                   focus_joint, normVars, runVars>>

FeatNext == FeatLoopBody \/ FeatReturn \/ FeatCallAgain

SpecFeat == FeatInit /\ [][FeatNext]_vars

---------------------------------------------------------------------------
\* normalize_features
\*
\* A matrix is a sequence of rows.  An entry of the input, of the imputed
\* matrix and of col_mean is NaN or a rational ("R" record).  A standard
\* deviation is a square root, so col_std, col_std_safe and the scaled
\* entries are kept exact as a sign and a rational square ("S" record: the
\* number s * sqrt(sq)).  Rounding to float32 is not modelled.
RNaN == [nan |-> TRUE, v |-> <<0, 1>>]
RNum(q) == [nan |-> FALSE, v |-> q]
SNaN == [nan |-> TRUE, s |-> 0, sq |-> <<0, 1>>]
Sign(n) == IF n > 0 THEN 1 ELSE IF n < 0 THEN -1 ELSE 0
SOfRat(q) == [nan |-> FALSE, s |-> Sign(q[1]), sq |-> RMul(q, q)]
SOfR(r) == IF r.nan THEN SNaN ELSE SOfRat(r.v)
SSqrt(q) == [nan |-> FALSE, s |-> Sign(q[1]), sq |-> q]
SOne == SOfRat(<<1, 1>>)
SIsZero(x) == ~x.nan /\ x.s = 0
\* a / b in floating point with b # 0 or NaN (every divisor here is floored)
SDiv(a, b) ==
    IF a.nan \/ b.nan THEN SNaN
    ELSE [nan |-> FALSE, s |-> a.s * b.s, sq |-> RDiv(a.sq, b.sq)]

RECURSIVE RSum(_)
RSum(qs) == IF Len(qs) = 0 THEN <<0, 1>> ELSE RAdd(qs[1], RSum(Tail(qs)))

NumCols(m) == Len(m[1])
Column(m, c) == [r \in 1..Len(m) |-> m[r][c]]
Known(col) == SelectSeq(col, LAMBDA x : ~x.nan)
Values(col) == [k \in 1..Len(Known(col)) |-> Known(col)[k].v]

\* np.nanmean of a column: NaN for a column of NaN only
nanmean(col) ==
    IF Len(Known(col)) = 0 THEN RNaN
    ELSE RNum(RDiv(RSum(Values(col)), <<Len(Known(col)), 1>>))

\* np.nanstd of a column (ddof = 0): the root of the mean squared deviation
nanstd(col) ==
    IF Len(Known(col)) = 0 THEN SNaN
    ELSE LET mu == nanmean(col).v
             dev == [k \in 1..Len(Known(col)) |->
                        RMul(RSub(Values(col)[k], mu), RSub(Values(col)[k], mu))]
         IN  SSqrt(RDiv(RSum(dev), <<Len(Known(col)), 1>>))

\* the imputation with 0 in place of the column mean
impute_zero(m, col_mean) ==
    [r \in 1..Len(m) |->
        [c \in 1..NumCols(m) |-> IF m[r][c].nan THEN RNum(<<0, 1>>) ELSE m[r][c]]]

\* feats[inds] = np.take(col_mean, inds[1])
impute(m, col_mean) ==
    [r \in 1..Len(m) |->
        [c \in 1..NumCols(m) |-> IF m[r][c].nan THEN col_mean[c] ELSE m[r][c]]]

\* np.where(x == 0, 1.0, x): NaN == 0 is false
floor_zero(x) == IF SIsZero(x) THEN SOne ELSE x

\* np.max(np.abs(feats), axis=0) of a column: NaN when the column holds one
col_maxabs(col) ==
    IF \E r \in 1..Len(col) : col[r].nan THEN SNaN
    ELSE SOfRat(RAmax([r \in 1..Len(col) |-> RAbs(col[r].v)]))

zscore(imputed, col_mean, col_std_safe) ==
    [r \in 1..Len(imputed) |->
        [c \in 1..NumCols(imputed) |->
            IF imputed[r][c].nan \/ col_mean[c].nan THEN SNaN
            ELSE SDiv(SOfRat(RSub(imputed[r][c].v, col_mean[c].v)),
                      col_std_safe[c])]]

maxabs_scale(imputed, maxabs_safe) ==
    [r \in 1..Len(imputed) |->
        [c \in 1..NumCols(imputed) |-> SDiv(SOfR(imputed[r][c]), maxabs_safe[c])]]

Methods == {"zscore", "maxabs"}

\* normalize_features(features_arr, method), for a method it knows: the
\* tuple it returns
normalize_features(arr, method) ==
    LET cols == 1..NumCols(arr)
        col_mean == [c \in cols |-> nanmean(Column(arr, c))]
        col_std == [c \in cols |-> nanstd(Column(arr, c))]
        feats == impute(arr, col_mean)
        col_std_safe == [c \in cols |-> floor_zero(col_std[c])]
        maxabs_safe == [c \in cols |-> floor_zero(col_maxabs(Column(feats, c)))]
    IN  [feats |-> IF method = "zscore" THEN zscore(feats, col_mean, col_std_safe)
                   ELSE maxabs_scale(feats, maxabs_safe),
         col_mean |-> col_mean,
         col_std_safe |-> col_std_safe]

\* The matrices given to the normalizer: two columns, 1..MaxRows rows, each
\* entry NaN or one of a few integers.
NormCols == {1, 2}
NormValues == {RNaN, RNum(<<-2, 1>>), RNum(<<0, 1>>), RNum(<<1, 1>>)}
\* (fewer values in the second column)
NormValues2 == {RNaN, RNum(<<0, 1>>), RNum(<<3, 1>>)}
NormRows == {<<a, b>> : a \in NormValues, b \in NormValues2}
NormMatrices ==
    UNION {[1..n -> NormRows] : n \in 1..MaxRows}
NormMethods == Methods \cup {"minmax"}

NormInit ==
    /\ image_height = 0 /\ image_width = 0 /\ num_frames = 0 /\ i = 0
    /\ crop_region = <<>> /\ oracle_calls = <<>> /\ failed_calls = <<>> /\ returned = <<>>
    /\ pc = "off"
    /\ keypoints_sequence = <<>>
    /\ min_swing_duration = 0 /\ max_swing_duration = 0
    /\ valid_swings = <<>> /\ seg_pc = "off" /\ results = <<>>
    /\ seg_computed = {}
    /\ FeatOff
    /\ norm_features_arr \in NormMatrices
    /\ norm_method \in NormMethods
    /\ norm_returned = <<>>
    /\ norm_pc = "call"
    /\ RunOff

\* normalize_features(features_arr, method) returns
Normalize ==
    /\ norm_pc = "call"
    /\ norm_method \in Methods
    /\ norm_returned' = normalize_features(norm_features_arr, norm_method)
    /\ norm_pc' = "returned"
    /\ UNCHANGED <<trackVars, segVars, featVars, norm_features_arr, norm_method, runVars>>

\* normalize_features raises ValueError for a method it does not know
NormalizeRaises ==
    /\ norm_pc = "call"
    /\ norm_method \notin Methods
    /\ norm_pc' = "raised"
    /\ UNCHANGED <<trackVars, segVars, featVars, norm_features_arr, norm_method,
                   norm_returned, runVars>>

NormNext == Normalize \/ NormalizeRaises

SpecNorm == NormInit /\ [][NormNext]_vars

---------------------------------------------------------------------------
\* The Pose Estimation Oracle's possible answers for one frame: 17
\* (y, x, confidence) triples normalized to the crop, in [0,1].  A pose is a
\* figure laid out around the hip midpoint (cy, cx), in eighths of the crop,
\* at scale s, clipped to the crop, under a confidence pattern.
Clip8(n) == IF n < 0 THEN 0 ELSE IF n > 8 THEN 8 ELSE n

FigureOffset(j) ==
    CASE j \in 0..4 -> <<-3, 0>>
      [] j = left_shoulder -> <<-2, -1>>
      [] j = right_shoulder -> <<-2, 1>>
      [] j = left_elbow -> <<-1, -2>>
      [] j = right_elbow -> <<-1, 2>>
      [] j = left_wrist -> <<0, -2>>
      [] j = right_wrist -> <<-3, 3>>
      [] j = left_hip -> <<0, -1>>
      [] j = right_hip -> <<0, 1>>
      [] j = left_knee -> <<1, -1>>
      [] j = right_knee -> <<1, 1>>
      [] j = left_ankle -> <<2, -1>>
      [] OTHER -> <<2, 1>>

ConfPattern(p, j) ==
    CASE p = "all_high" -> 90
      [] p = "all_low" -> 10
      [] p = "hips_at_threshold" -> IF j \in {left_hip, right_hip} THEN 20 ELSE 90
      [] OTHER -> \* "partial": one hip, one shoulder and the limbs' ends are low
            IF j \in {left_hip, right_shoulder, left_wrist, right_wrist,
                      left_ankle, right_ankle} \cup (0..4)
            THEN 10 ELSE 90

OraclePose(cy, cx, s, p) ==
    [j \in Joints |->
        [y |-> Rat(Clip8(cy + s * FigureOffset(j)[1]), 8),
         x |-> Rat(Clip8(cx + s * FigureOffset(j)[2]), 8),
         c |-> ConfPattern(p, j)]]

OraclePoses ==
    {OraclePose(4, 4, 1, "partial"),             \* centred figure
     OraclePose(4, 1, 1, "all_high"),            \* figure at the left edge
     OraclePose(4, 1, 2, "all_high"),            \* large figure at the left edge
     OraclePose(4, 4, 1, "all_low"),
     OraclePose(4, 4, 1, "hips_at_threshold")}

---------------------------------------------------------------------------
\* extract_keypoints_from_video(frames)

TrackInit ==
    /\ image_height \in 1..MaxDim
    /\ image_width \in 1..MaxDim
    /\ num_frames \in 0..MaxVideoFrames
    /\ i = 0
    /\ crop_region = init_crop_region(image_height, image_width)
    /\ keypoints_sequence = <<>>
    /\ oracle_calls = <<>> /\ failed_calls = <<>>
    /\ returned = <<>>
    /\ pc = "loop"
    /\ min_swing_duration = 0 /\ max_swing_duration = 0
    /\ valid_swings = <<>> /\ seg_pc = "off" /\ results = <<>>
    /\ seg_computed = {}
    /\ FeatOff
    /\ NormOff
    /\ RunOff

\* The loop body with the crop region never advanced (every frame is cropped
\* with the region of frame 0).
ExtractLoopBody_StaleCrop ==
    /\ pc = "loop"
    /\ i < num_frames
    /\ \E out \in OraclePoses :
          LET keypoints_with_scores ==
                  run_inference(out, crop_region, image_height, image_width) @@ <<>>
          IN  /\ oracle_calls' = Append(oracle_calls,
                     [frame |-> i, crop |-> crop_region, out |-> out,
                      pose |-> keypoints_with_scores])
              /\ keypoints_sequence' = Append(keypoints_sequence,
                     keypoints_to_pixels(keypoints_with_scores,
                                         image_height, image_width))
    /\ i' = i + 1
    /\ UNCHANGED <<image_height, image_width, num_frames, returned, pc,
                   crop_region, failed_calls, segVars, featVars, normVars, runVars>>

\* One iteration of "for i in range(num_frames)".  oracle_calls records, for
\* each invocation of the oracle, the frame passed, the crop region passed,
\* the oracle's answer and the pose run_inference made of it.
ExtractLoopBody ==
    /\ pc = "loop"
    /\ i < num_frames
    /\ \E out \in OraclePoses :
          LET \* the array run_inference returns, computed once
              keypoints_with_scores ==
                  run_inference(out, crop_region, image_height, image_width) @@ <<>>
          IN  /\ oracle_calls' = Append(oracle_calls,
                     [frame |-> i, crop |-> crop_region, out |-> out,
                      pose |-> keypoints_with_scores])
              /\ keypoints_sequence' = Append(keypoints_sequence,
                     keypoints_to_pixels(keypoints_with_scores,
                                         image_height, image_width))
              /\ crop_region' = determine_crop_region(keypoints_with_scores,
                                         image_height, image_width)
    /\ i' = i + 1
    /\ UNCHANGED <<image_height, image_width, num_frames, returned, pc,
                   failed_calls, segVars, featVars, normVars, runVars>>

\* The oracle is invoked for frame i and fails, and the failure is caught in
\* the loop: a placeholder pose is appended and the loop goes on.
ExtractOracleFails_Swallowed ==
    /\ pc = "loop"
    /\ i < num_frames
    /\ failed_calls' = Append(failed_calls, i)
    /\ keypoints_sequence' = Append(keypoints_sequence,
           keypoints_to_pixels(
               run_inference(CHOOSE out \in OraclePoses : TRUE, crop_region,
                             image_height, image_width) @@ <<>>,
               image_height, image_width))
    /\ i' = i + 1
    /\ UNCHANGED <<image_height, image_width, num_frames, crop_region,
                   oracle_calls, returned, pc, segVars, featVars, normVars, runVars>>

\* The oracle is invoked for frame i ("outputs = model(input_image)") and
\* raises.  Neither run_inference nor extract_keypoints_from_video has a
\* handler: the exception leaves both, nothing is appended or returned.
ExtractOracleFails ==
    /\ pc = "loop"
    /\ i < num_frames
    /\ failed_calls' = Append(failed_calls, i)
    /\ pc' = "raised"
    /\ UNCHANGED <<image_height, image_width, num_frames, i, crop_region,
                   keypoints_sequence, oracle_calls, returned,
                   segVars, featVars, normVars, runVars>>

\* "return keypoints_sequence"
ExtractReturn ==
    /\ pc = "loop"
    /\ i = num_frames
    /\ returned' = keypoints_sequence
    /\ pc' = "done"
    /\ UNCHANGED <<image_height, image_width, num_frames, i, crop_region,
                   keypoints_sequence, oracle_calls, failed_calls, segVars, featVars, normVars, runVars>>

TrackNext == ExtractLoopBody \/ ExtractOracleFails \/ ExtractReturn

SpecTrack == TrackInit /\ [][TrackNext]_vars

---------------------------------------------------------------------------
\* swing_detector.py

\* "wrist_positions.append(curr_xy[10])"
wrist_positions(kps) == [k \in 1..Len(kps) |-> kps[k].xy[right_wrist]]

\* np.linalg.norm(np.diff(wrist_positions, axis=0), axis=1)
wrist_velocities(kps) ==
    LET pos == wrist_positions(kps)
    IN  [k \in 1..(Len(kps) - 1) |->
            Norm(<<pos[k + 1][1] - pos[k][1], pos[k + 1][2] - pos[k][2]>>)]

\* _smooth_signal(signal, window=5), times 5: the signal itself when it is
\* shorter than the window, else np.convolve(signal, ones(5)/5, mode='same'),
\* the mean of signal[k-2..k+2] with zeros beyond the ends.
SmoothWindow == 5
smooth_signal_x5(signal) ==
    IF Len(signal) < SmoothWindow
    THEN [k \in 1..Len(signal) |-> SmoothWindow * signal[k]]
    ELSE [k \in 1..Len(signal) |->
            LET at(m) == IF m < 1 \/ m > Len(signal) THEN 0 ELSE signal[m]
            IN  at(k - 2) + at(k - 1) + at(k) + at(k + 1) + at(k + 2)]

\* np.percentile(a, 75), times 4, for a non-empty a: linear interpolation
\* between the order statistics around position 0.75 * (n - 1).
percentile75_x4(a) ==
    LET sorted == SortSeq(a, LAMBDA x, y : x < y)
        n == Len(a)
        lo == (3 * (n - 1)) \div 4
        r == (3 * (n - 1)) % 4
    IN  IF r = 0 THEN 4 * sorted[lo + 1]
        ELSE (4 - r) * sorted[lo + 1] + r * sorted[lo + 2]

\* high_velocity_frames with >= for >
high_velocity_frames_not_below(kps) ==
    LET smooth == smooth_signal_x5(wrist_velocities(kps))
        threshold == percentile75_x4(smooth)
    IN  [k \in 1..Len(smooth) |-> 4 * smooth[k] >= threshold]

\* high_velocity_frames = smooth_velocities > velocity_threshold
high_velocity_frames(kps) ==
    LET smooth == smooth_signal_x5(wrist_velocities(kps))
        threshold == percentile75_x4(smooth)
    IN  [k \in 1..Len(smooth) |-> 4 * smooth[k] > threshold]

\* _find_continuous_segments(boolean_array): the loop from index k (0-based)
\* with the open run's start (-1 for None).
RECURSIVE FindFrom(_, _, _)
FindFrom(b, k, start) ==
    IF k = Len(b)
    THEN IF start # -1 THEN <<<<start, Len(b)>>>> ELSE <<>>
    ELSE IF b[k + 1] /\ start = -1 THEN FindFrom(b, k + 1, k)
    ELSE IF ~b[k + 1] /\ start # -1
         THEN <<<<start, k>>>> \o FindFrom(b, k + 1, -1)
    ELSE FindFrom(b, k + 1, start)

\* _find_continuous_segments without the closing of a run that is open
\* when the array ends
find_continuous_segments_tail_dropped(b) ==
    SelectSeq(FindFrom(b, 0, -1), LAMBDA sg : sg[2] < Len(b))

find_continuous_segments(b) == FindFrom(b, 0, -1)

\* "if self.min_swing_duration <= duration <= self.max_swing_duration" with < for <=
duration_valid_strict(duration, lo, hi) == lo < duration /\ duration <= hi

\* "if self.min_swing_duration <= duration <= self.max_swing_duration"
duration_valid(duration, lo, hi) == lo <= duration /\ duration <= hi

\* the filter loop over swing_segments with the test left out
filter_valid_none(segs, lo, hi) == segs

\* the filter loop over swing_segments
filter_valid(segs, lo, hi) ==
    SelectSeq(segs, LAMBDA sg : duration_valid(sg[2] - sg[1], lo, hi))

\* the early return taken for the empty sequence only
too_short_empty_only(kps, lo) == Len(kps) = 0

\* "if len(keypoints_sequence) < self.min_swing_duration: return []"
too_short(kps, lo) == Len(kps) < lo

\* detect_swings_from_keypoints(keypoints_sequence), for a sequence with at
\* least two frames (so that there is a speed to take the percentile of)
detect_swings_from_keypoints(kps, lo, hi) ==
    IF too_short(kps, lo) THEN <<>>
    ELSE filter_valid(find_continuous_segments(high_velocity_frames(kps)), lo, hi)

\* A frame of the segmenter's input: the right wrist at p, the other joints
\* where they stand, every confidence high.
WristPoints == {<<0, 0>>, <<3, 4>>, <<6, 8>>}
SegFrame(p) ==
    [xy |-> [j \in Joints |-> IF j = right_wrist THEN p ELSE <<0, 0>>],
     confs |-> [j \in Joints |-> 90]]

SegInit ==
    /\ image_height = 0 /\ image_width = 0 /\ num_frames = 0 /\ i = 0
    /\ crop_region = <<>> /\ oracle_calls = <<>> /\ failed_calls = <<>> /\ returned = <<>>
    /\ pc = "off"
    /\ keypoints_sequence = <<>>
    /\ min_swing_duration \in 1..MaxDuration
    /\ max_swing_duration \in min_swing_duration..MaxDuration
    /\ valid_swings = <<>>
    /\ results = <<>>
    /\ seg_computed = {}
    /\ seg_pc = "input"
    /\ FeatOff
    /\ NormOff
    /\ RunOff

\* The caller's video has one more frame.
LoadFrame ==
    /\ seg_pc = "input"
    /\ Len(keypoints_sequence) < MaxSeqFrames
    /\ \E p \in WristPoints :
          keypoints_sequence' = Append(keypoints_sequence, SegFrame(p))
    /\ UNCHANGED <<image_height, image_width, num_frames, i, crop_region,
                   oracle_calls, failed_calls, returned, pc,
                   min_swing_duration, max_swing_duration, valid_swings, seg_pc,
                   seg_computed, results, featVars, normVars, runVars>>

\* detect_swings_from_keypoints(keypoints_sequence) is called and returns.
DetectSwings ==
    /\ seg_pc = "input"
    /\ too_short(keypoints_sequence, min_swing_duration)
          \/ Len(keypoints_sequence) >= 2
    /\ valid_swings' = detect_swings_from_keypoints(keypoints_sequence,
                            min_swing_duration, max_swing_duration)
    /\ seg_computed' =
          IF too_short(keypoints_sequence, min_swing_duration) THEN {}
          ELSE {"wrist_velocities", "smooth_velocities", "velocity_threshold"}
    /\ seg_pc' = "returned"
    /\ UNCHANGED <<trackVars, min_swing_duration, max_swing_duration, results,
                   featVars, normVars, runVars>>

\* detect_swings_from_keypoints on a sequence of fewer than two frames that
\* is not returned early (a single frame when min_swing_duration is 1): the
\* speeds are empty, and np.percentile of an empty array gives nan (nothing
\* is above it) or raises, depending on the numpy version.
DetectSwingsNoSpeeds ==
    /\ seg_pc = "input"
    /\ Len(keypoints_sequence) < 2
    /\ ~too_short(keypoints_sequence, min_swing_duration)
    /\ valid_swings' = <<>>
    /\ seg_computed' = {"wrist_velocities", "smooth_velocities"}
    /\ seg_pc' \in {"returned", "raised"}
    /\ UNCHANGED <<trackVars, min_swing_duration, max_swing_duration, results,
                   featVars, normVars, runVars>>

\* extract_swing_clips: the slice keypoints_sequence[start:end] of every
\* segment, with the segment's bounds
extract_swing_clips(kps, swing_segments) ==
    [n \in 1..Len(swing_segments) |->
        [keypoints |-> SubSeq(kps, swing_segments[n][1] + 1, swing_segments[n][2]),
         start_frame |-> swing_segments[n][1],
         end_frame |-> swing_segments[n][2]]]

\* The rest of process_video_to_features once the segments are found: the
\* clips are cut and the features of each are built.
ProcessClips ==
    /\ seg_pc = "returned"
    /\ LET swing_clips == extract_swing_clips(keypoints_sequence, valid_swings)
       IN  results' =
              [n \in 1..Len(swing_clips) |->
                  [features |-> extract_features_from_keypoints(swing_clips[n].keypoints),
                   start_frame |-> swing_clips[n].start_frame,
                   end_frame |-> swing_clips[n].end_frame]]
    /\ seg_pc' = "done"
    /\ UNCHANGED <<trackVars, min_swing_duration, max_swing_duration,
                   valid_swings, seg_computed, featVars, normVars, runVars>>

SegNext == LoadFrame \/ DetectSwings \/ DetectSwingsNoSpeeds \/ ProcessClips

SpecSeg == SegInit /\ [][SegNext]_vars

\* _find_continuous_segments on its own: every boolean array of up to
\* MaxArrayLen elements.
BooleanArrays == UNION {[1..n -> BOOLEAN] : n \in 0..MaxArrayLen}

RunsInit ==
    /\ image_height = 0 /\ image_width = 0 /\ num_frames = 0 /\ i = 0
    /\ crop_region = <<>> /\ oracle_calls = <<>> /\ failed_calls = <<>>
    /\ returned = <<>> /\ pc = "off"
    /\ keypoints_sequence = <<>>
    /\ min_swing_duration = 0 /\ max_swing_duration = 0
    /\ valid_swings = <<>> /\ seg_pc = "off" /\ results = <<>>
    /\ seg_computed = {}
    /\ FeatOff
    /\ NormOff
    /\ boolean_array \in BooleanArrays
    /\ segments = <<>>
    /\ runs_pc = "call"

\* _find_continuous_segments(boolean_array) returns
FindContinuousSegments ==
    /\ runs_pc = "call"
    /\ segments' = find_continuous_segments(boolean_array)
    /\ runs_pc' = "returned"
    /\ UNCHANGED <<trackVars, segVars, featVars, normVars, boolean_array>>

RunsNext == FindContinuousSegments

SpecRuns == RunsInit /\ [][RunsNext]_vars

---------------------------------------------------------------------------
\* Properties of the tracker (SpecTrack).

\* The pose the tracker obtained for the k-th oracle call, and the region
\* the tracker holds after it (the one passed to call k+1, or the current
\* crop_region after the last call).
PoseOf(k) == oracle_calls[k].pose
RegionAfter(k) ==
    IF k < Len(oracle_calls) THEN oracle_calls[k + 1].crop ELSE crop_region

InUnit(q) == RLe(RInt(0), q) /\ RLe(q, RInt(1))
PoseInImage(kp) == \A j \in Joints : InUnit(kp[j].y) /\ InUnit(kp[j].x)
InsideImage(r) ==
    /\ RLe(RInt(0), r.y_min) /\ RLe(RInt(0), r.x_min)
    /\ RLe(r.y_max, RInt(1)) /\ RLe(r.x_max, RInt(1))
\* square in pixel space
SquareInPixels(r) ==
    RMul(RSub(r.y_max, r.y_min), RInt(image_height))
        = RMul(RSub(r.x_max, r.x_min), RInt(image_width))
HalfSizePx(r) ==
    RDiv(RMul(RSub(r.y_max, r.y_min), RInt(image_height)), RInt(2))
\* the region's centre, in pixels, as <<y, x>>
CenterPx(r) ==
    <<RMul(RDiv(RAdd(r.y_min, r.y_max), RInt(2)), RInt(image_height)),
      RMul(RDiv(RAdd(r.x_min, r.x_max), RInt(2)), RInt(image_width))>>
\* the last oracle call (every call is the last one in the state it leads to)
LastCall == Len(oracle_calls)
\* the call's region came from torso geometry
HipCenter(k) == crop_center(target_keypoints(PoseOf(k), image_height, image_width))
FromTorso(k) ==
    /\ PoseInImage(PoseOf(k))
    /\ torso_visible(PoseOf(k))
    /\ ~fallback_taken(
            crop_length_half(PoseOf(k),
                target_keypoints(PoseOf(k), image_height, image_width),
                HipCenter(k), image_height, image_width),
            image_height, image_width)

\* C1 as stated: every region computed from torso geometry, for a pose
\* inside the image, lies inside the image.
C1_RegionInsideImage ==
    \A k \in {LastCall} \ {0} : FromTorso(k) => InsideImage(RegionAfter(k))

\* What the clamp does give: every region computed from torso geometry is a
\* pixel-space square centred on the hip midpoint whose half-size is at most
\* the largest centre-to-edge distance and at most half the larger image
\* dimension, so at least one of its four sides is inside the image.
RegionClampedToFarthestEdge ==
    \A k \in {LastCall} \ {0} :
        FromTorso(k) =>
            LET r == RegionAfter(k)
                c == HipCenter(k)
                larger == IF image_width > image_height
                          THEN image_width ELSE image_height
            IN  /\ SquareInPixels(r)
                /\ CenterPx(r) = c
                /\ RLe(HalfSizePx(r),
                       RAmax(edge_distances(c, image_height, image_width)))
                /\ RLe(HalfSizePx(r), Rat(larger, 2))
                /\ \/ RLe(RInt(0), r.y_min) \/ RLe(RInt(0), r.x_min)
                   \/ RLe(r.y_max, RInt(1)) \/ RLe(r.x_max, RInt(1))

\* A region computed from torso geometry that leaves the image.
RegionLeavesImage ==
    \E k \in {LastCall} \ {0} :
        /\ FromTorso(k)
        /\ ~InsideImage(RegionAfter(k))
        /\ RLt(RInt(0), HalfSizePx(RegionAfter(k)))

\* C2 as stated: the initial region is a pixel-space square centred on the
\* image centre and lies inside the image.
C2_InitRegionFitsImage ==
    i = 0 =>
        /\ SquareInPixels(crop_region)
        /\ CenterPx(crop_region) = <<Rat(image_height, 2), Rat(image_width, 2)>>
        /\ InsideImage(crop_region)

\* C2 amended: the initial region is a pixel-space square centred on the
\* image centre whose side is the larger image dimension: it covers the
\* whole image, and lies inside it only when the image is square.
C2_InitRegionCoversImage ==
    i = 0 =>
        /\ SquareInPixels(crop_region)
        /\ CenterPx(crop_region) = <<Rat(image_height, 2), Rat(image_width, 2)>>
        /\ RLe(crop_region.y_min, RInt(0)) /\ RLe(crop_region.x_min, RInt(0))
        /\ RLe(RInt(1), crop_region.y_max) /\ RLe(RInt(1), crop_region.x_max)
        /\ HalfSizePx(crop_region)
               = Rat(IF image_width > image_height
                     THEN image_width ELSE image_height, 2)
        /\ InsideImage(crop_region) <=> image_height = image_width

\* C2 witness: the initial region of a wide image, which starts above it.
C2_Witness ==
    /\ i = 0
    /\ image_width > image_height
    /\ RLt(crop_region.y_min, RInt(0))
    /\ RLt(RInt(1), crop_region.y_max)

\* C3: the oracle is invoked once per frame in playback order; frame 0 is
\* cropped with init_crop_region, frame k > 0 with determine_crop_region of
\* frame k-1's pose; the returned sequence holds frame k's pose at entry k.
\* (The crop and the pose are compared for the last call: every call is the
\* last one in the state it leads to.)
C3_CausalRecurrence ==
    /\ Len(oracle_calls) = i
    /\ Len(keypoints_sequence) = i
    /\ \A k \in 1..Len(oracle_calls) : oracle_calls[k].frame = k - 1
    /\ \A k \in {LastCall} \ {0} :
          /\ oracle_calls[k].pose =
                run_inference(oracle_calls[k].out, oracle_calls[k].crop,
                              image_height, image_width)
          /\ oracle_calls[k].crop =
                IF k = 1 THEN init_crop_region(image_height, image_width)
                ELSE determine_crop_region(PoseOf(k - 1),
                                           image_height, image_width)
          /\ keypoints_sequence[k] =
                keypoints_to_pixels(PoseOf(k), image_height, image_width)
    /\ pc = "done" =>
          /\ Len(oracle_calls) = num_frames
          /\ returned = keypoints_sequence

\* C3 witness: a three-frame video has been returned whose three frames were
\* cropped with three different regions.
C3_Witness ==
    /\ pc = "done"
    /\ num_frames = 3
    /\ Len(returned) = 3
    /\ oracle_calls[1].crop # oracle_calls[2].crop
    /\ oracle_calls[2].crop # oracle_calls[3].crop
    /\ oracle_calls[1].crop # oracle_calls[3].crop

---------------------------------------------------------------------------
\* Properties of the segmenter (SpecSeg).

\* detect_swings_from_keypoints has returned after computing speeds
Segmented == seg_pc = "returned" /\ Len(keypoints_sequence) >= 2
                /\ Len(keypoints_sequence) >= min_swing_duration

\* C4: every returned segment (start, end) has 0 <= start < end <= N and
\* min_swing_duration <= end - start <= max_swing_duration, and the list is
\* in ascending start order with each end <= the next start.
C4_SegmentsValidOrdered ==
    seg_pc = "returned" =>
        /\ \A k \in 1..Len(valid_swings) :
              LET start == valid_swings[k][1]
                  end == valid_swings[k][2]
              IN  /\ 0 <= start /\ start < end
                  /\ end <= Len(keypoints_sequence)
                  /\ min_swing_duration <= end - start
                  /\ end - start <= max_swing_duration
        /\ \A k \in 1..(Len(valid_swings) - 1) :
              /\ valid_swings[k][1] < valid_swings[k + 1][1]
              /\ valid_swings[k][2] <= valid_swings[k + 1][1]

\* C4 witness: two separate segments have been returned.
C4_Witness ==
    /\ seg_pc = "returned"
    /\ Len(valid_swings) = 2
    /\ valid_swings[1][2] < valid_swings[2][1]

\* the high-motion positions are exactly s..e-1 (0-based), a single burst
SingleBurstIn(high, s, e) ==
    /\ 0 <= s /\ s < e /\ e <= Len(high)
    /\ \A k \in 0..(Len(high) - 1) : high[k + 1] <=> (s <= k /\ k < e)
SingleBurst(s, e) ==
    SingleBurstIn(high_velocity_frames(keypoints_sequence), s, e)

\* C5: when the smoothed speed has a single burst above the threshold, the
\* result is exactly that burst if it is min_swing_duration positions long,
\* and empty if it is min_swing_duration - 1 long or longer than
\* max_swing_duration.
C5_BurstBoundary ==
    Segmented =>
        LET high == high_velocity_frames(keypoints_sequence) @@ <<>>
        IN  \A s \in 0..Len(high), e \in 0..Len(high) :
                SingleBurstIn(high, s, e) =>
                    /\ e - s = min_swing_duration => valid_swings = <<<<s, e>>>>
                    /\ e - s = min_swing_duration - 1 => valid_swings = <<>>
                    /\ e - s > max_swing_duration => valid_swings = <<>>

\* C5 witness: a single burst of exactly min_swing_duration = 2 positions,
\* not at either end, has been returned as the only segment.
C5_Witness ==
    /\ Segmented
    /\ min_swing_duration = 2
    /\ \E s \in 1..Len(keypoints_sequence) :
          /\ SingleBurst(s, s + 2)
          /\ s + 2 < Len(keypoints_sequence) - 1
          /\ valid_swings = <<<<s, s + 2>>>>

\* single bursts one position short of the minimum, and longer than the
\* maximum, have been dropped
BurstTooShortDropped ==
    /\ Segmented /\ min_swing_duration = 2 /\ valid_swings = <<>>
    /\ \E s \in 0..Len(keypoints_sequence) : SingleBurst(s, s + 1)
BurstTooLongDropped ==
    /\ Segmented /\ max_swing_duration = 1 /\ valid_swings = <<>>
    /\ \E s \in 0..Len(keypoints_sequence) : SingleBurst(s, s + 2)

---------------------------------------------------------------------------
\* Properties of the feature builder (SpecFeat)

\* The layout of a feature vector as the specification gives it, by
\* 0-based entry index: what an entry is, and the joints it reads at frame t.
FeatureSchemaLength == 12 * 2 + 8 + 17 * 2

ElbowShoulderHipKnee ==
    <<{left_shoulder, left_elbow, left_wrist},
      {right_shoulder, right_elbow, right_wrist},
      {left_elbow, left_shoulder, left_hip},
      {right_elbow, right_shoulder, right_hip},
      {left_shoulder, left_hip, left_knee},
      {right_shoulder, right_hip, right_knee},
      {left_hip, left_knee, left_ankle},
      {right_hip, right_knee, right_ankle}>>

AngleVertex ==
    <<left_elbow, right_elbow, left_shoulder, right_shoulder,
      left_hip, right_hip, left_knee, right_knee>>

EntryReads(e) ==
    IF e < 24 THEN {5 + (e \div 2)}
    ELSE IF e < 32 THEN ElbowShoulderHipKnee[e - 23]
    ELSE {(e - 32) \div 2}

\* an angle entry whose vertex coincides with one of its two other joints
DegenerateAngle(e, xy) ==
    /\ e \in 24..31
    /\ \E j \in ElbowShoulderHipKnee[e - 23] \ {AngleVertex[e - 23]} :
          xy[j] = xy[AngleVertex[e - 23]]

FrameAt(t) == keypoints_sequence[t]
RowAt(t) == features_list[t]
Entry(t, e) == features_list[t][e + 1]
Low(t, j) == FrameAt(t).confs[j] < conf_thresh
Rows == 1..Len(features_list)
Entries == 0..(FeatureSchemaLength - 1)

\* C6: in every emitted feature vector, an entry that reads a joint whose
\* confidence at that frame is below the threshold is NaN (the joint's speed
\* and acceleration magnitude if it is tracked, its x and y, every angle
\* whose triple contains it), and an entry that reads no such joint and is
\* no degenerate angle is numeric.
C6_MaskByFrameConfidence ==
    fe_pc # "off" =>
        \A t \in Rows :
            /\ Len(RowAt(t)) = FeatureSchemaLength
            /\ \A e \in Entries :
                  /\ (\E j \in EntryReads(e) : Low(t, j)) => IsNaN(Entry(t, e))
                  /\ ((\A j \in EntryReads(e) : ~Low(t, j))
                         /\ ~DegenerateAngle(e, FrameAt(t).xy))
                     => ~IsNaN(Entry(t, e))

\* a returned clip with a frame where a tracked joint of an angle is below
\* the threshold: its four kinds of entries are NaN and others are numeric
C6_Witness ==
    /\ fe_pc = "returned"
    /\ focus_joint = left_hip
    /\ \E t \in Rows :
          /\ Low(t, left_hip) /\ ~Low(t, right_hip)
          /\ IsNaN(Entry(t, 12)) /\ IsNaN(Entry(t, 13))
          /\ IsNaN(Entry(t, 26)) /\ IsNaN(Entry(t, 28)) /\ IsNaN(Entry(t, 30))
          /\ IsNaN(Entry(t, 54)) /\ IsNaN(Entry(t, 55))
          /\ ~IsNaN(Entry(t, 14)) /\ ~IsNaN(Entry(t, 27)) /\ ~IsNaN(Entry(t, 56))

\* C7: a tracked joint whose confidence is below the threshold at frame t-1
\* has unknown speed and acceleration magnitude at frame t, and one whose
\* confidence is below the threshold at frame t-2 has unknown acceleration
\* magnitude at frame t, whatever its confidence at frame t.
C7_MaskPropagatesThroughDerivatives ==
    fe_pc # "off" =>
        \A t \in Rows : \A j \in 5..16 :
            /\ (t >= 2 /\ Low(t - 1, j))
                  => IsNaN(Entry(t, 2 * (j - 5))) /\ IsNaN(Entry(t, 2 * (j - 5) + 1))
            /\ (t >= 3 /\ Low(t - 2, j)) => IsNaN(Entry(t, 2 * (j - 5) + 1))

\* What the code does instead: the speed and the acceleration magnitude of a
\* tracked joint are NaN exactly when its confidence at frame t is low.
DerivativesMaskedByCurrentFrameOnly ==
    fe_pc # "off" =>
        \A t \in Rows : \A j \in 5..16 :
            /\ IsNaN(Entry(t, 2 * (j - 5))) <=> Low(t, j)
            /\ IsNaN(Entry(t, 2 * (j - 5) + 1)) <=> Low(t, j)

\* a joint unreliable at t-1 and reliable at t gets a numeric speed at t
StaleObservationRead ==
    /\ fe_pc = "returned"
    /\ \E t \in Rows : \E j \in 5..16 :
          t >= 2 /\ Low(t - 1, j) /\ ~Low(t, j) /\ ~IsNaN(Entry(t, 2 * (j - 5)))

\* The quantities of frame t computed from the input sequence alone.
VelAt(t, j) ==
    IF t = 1 THEN <<0, 0>>
    ELSE <<InvDt * (FrameAt(t).xy[j][1] - FrameAt(t - 1).xy[j][1]),
           InvDt * (FrameAt(t).xy[j][2] - FrameAt(t - 1).xy[j][2])>>
AccAt(t, j) ==
    IF t <= 2 THEN <<0, 0>>
    ELSE <<InvDt * InvDt * (FrameAt(t).xy[j][1] - 2 * FrameAt(t - 1).xy[j][1]
                              + FrameAt(t - 2).xy[j][1]),
           InvDt * InvDt * (FrameAt(t).xy[j][2] - 2 * FrameAt(t - 1).xy[j][2]
                              + FrameAt(t - 2).xy[j][2])>>
AngleAt(t, n) ==
    LET v == AngleVertex[n]
        o == ElbowShoulderHipKnee[n] \ {v}
        \* the outer joint named first by the specification: for the elbows
        \* the shoulder, for the shoulders the elbow, for hips the shoulder,
        \* for the knees the hip
        a == IF n \in {3, 4} THEN CHOOSE j \in o : j \in {left_elbow, right_elbow}
             ELSE CHOOSE j \in o : \A k \in o : j <= k
        c == CHOOSE j \in o : j # a
    IN  angle_between(FrameAt(t).xy[a], FrameAt(t).xy[v], FrameAt(t).xy[c])

ExpectedEntry(t, e) ==
    IF e < 24 THEN
        IF e % 2 = 0 THEN Num(Norm(VelAt(t, 5 + (e \div 2))))
        ELSE Num(Norm(AccAt(t, 5 + (e \div 2))))
    ELSE IF e < 32 THEN AngleAt(t, e - 23)
    ELSE Num(FrameAt(t).xy[(e - 32) \div 2][IF e % 2 = 0 THEN 1 ELSE 2])

\* C9: every emitted feature vector has 66 entries, and entry e is NaN or
\* the quantity the layout puts at e: (speed, acceleration magnitude) of
\* joints 5..16 at 0..23, the eight angles at 24..31, (x, y) of joints 0..16
\* at 32..65 -- whatever is masked or degenerate and whether or not frames
\* t-1 and t-2 exist.
C9_FixedLengthAndLayout ==
    fe_pc # "off" =>
        \A t \in Rows :
            /\ Len(RowAt(t)) = FeatureSchemaLength
            /\ DOMAIN RowAt(t) = 1..FeatureSchemaLength
            /\ \A e \in Entries :
                  IsNaN(Entry(t, e)) \/ Entry(t, e) = ExpectedEntry(t, e)

\* a returned clip of three frames with a masked joint, a degenerate angle,
\* a frame whose speed is non-zero and a frame where only the acceleration is
C9_Witness ==
    /\ fe_pc = "returned"
    /\ Len(features_list) = 3
    /\ \E t \in Rows : \E j \in Joints : Low(t, j)
    /\ \E t \in Rows : DegenerateAngle(24, FrameAt(t).xy) /\ IsNaN(Entry(t, 24))
                          /\ ~Low(t, left_elbow)
    /\ \E j \in 5..16 :
          /\ Entry(2, 2 * (j - 5)).k = "num" /\ Entry(2, 2 * (j - 5)).a > 0
          /\ Entry(3, 2 * (j - 5)) = Num(0)
          /\ Entry(3, 2 * (j - 5) + 1).k = "num" /\ Entry(3, 2 * (j - 5) + 1).a > 0

\* C8: the returned feature matrix has one row per input frame, in input
\* order, and as many columns as the feature schema has entries; for an empty
\* input it has zero rows and the same columns.
C8_RowsAndSchema ==
    fe_pc = "returned" =>
        /\ features_arr.shape = <<Len(keypoints_sequence), FeatureSchemaLength>>
        /\ Len(features_arr.rows) = Len(keypoints_sequence)
        /\ \A t \in 1..Len(features_arr.rows) :
              features_arr.rows[t] =
                  build_frame_features(
                      IF t > 2 THEN FrameAt(t - 2).xy ELSE None,
                      IF t > 1 THEN FrameAt(t - 1).xy ELSE None,
                      FrameAt(t).xy, FrameAt(t).confs)

\* What holds of the code: the same for a non-empty input, and a
\* one-dimensional array of no element for an empty one.
RowsAndSchemaUnlessEmpty ==
    fe_pc = "returned" =>
        /\ Len(features_arr.rows) = Len(keypoints_sequence)
        /\ features_arr.shape =
              IF Len(keypoints_sequence) = 0 THEN <<0>>
              ELSE <<Len(keypoints_sequence), FeatureSchemaLength>>

EmptyInputReturned ==
    fe_pc = "returned" /\ Len(keypoints_sequence) = 0 /\ features_arr.shape = <<0>>

\* The clips of the pipeline (SpecSeg): the features of every swing clip
\* have end_frame - start_frame rows of FeatureSchemaLength columns, and the
\* clips are those of the segments found.
ClipRowsMatchSpan ==
    seg_pc = "done" =>
        /\ Len(results) = Len(valid_swings)
        /\ \A n \in 1..Len(results) :
              /\ results[n].start_frame = valid_swings[n][1]
              /\ results[n].end_frame = valid_swings[n][2]
              /\ results[n].features.shape =
                    <<results[n].end_frame - results[n].start_frame,
                      FeatureSchemaLength>>
              /\ Len(results[n].features.rows) =
                    results[n].end_frame - results[n].start_frame

TwoClipsProcessed ==
    seg_pc = "done" /\ Len(results) = 2

---------------------------------------------------------------------------
\* Properties of the normalizer (SpecNorm)

\* The transform replayed by a caller that holds the returned statistics
\* only: the matrix is imputed with the returned mean, then centred and
\* divided by the returned scale for 'zscore', divided by the returned scale
\* for 'maxabs'.
ReplayImputed == impute(norm_features_arr, norm_returned.col_mean)
Replay ==
    IF norm_method = "zscore"
    THEN zscore(ReplayImputed, norm_returned.col_mean, norm_returned.col_std_safe)
    ELSE maxabs_scale(ReplayImputed, norm_returned.col_std_safe)

\* the floored column max-abs of the imputed matrix
UsedMaxAbs ==
    [c \in 1..NumCols(norm_features_arr) |->
        floor_zero(col_maxabs(Column(ReplayImputed, c)))]

\* C10: the statistics returned next to the scaled matrix are those the
\* method used (for 'maxabs' the floored column max-abs), and the transform
\* replayed from them on the imputed matrix gives the returned scaled matrix,
\* for both methods.
C10_ReplayFromReturnedStatistics ==
    norm_pc = "returned" =>
        /\ Replay = norm_returned.feats
        /\ norm_method = "maxabs" => norm_returned.col_std_safe = UsedMaxAbs

\* What holds of the code: the replay gives the scaled matrix for 'zscore';
\* for 'maxabs' the scale returned is the floored standard deviation, and
\* the scaled matrix is the imputed one divided by the floored max-abs,
\* which is not returned.
ReplayZscoreOnly ==
    norm_pc = "returned" =>
        /\ norm_method = "zscore" => Replay = norm_returned.feats
        /\ norm_method = "maxabs" =>
              /\ norm_returned.feats = maxabs_scale(ReplayImputed, UsedMaxAbs)
              /\ norm_returned.col_std_safe =
                    [c \in 1..NumCols(norm_features_arr) |->
                        floor_zero(nanstd(Column(norm_features_arr, c)))]

\* a 'maxabs' call whose replay from the returned statistics gives another
\* matrix than the one returned
MaxAbsReplayDiffers ==
    /\ norm_pc = "returned" /\ norm_method = "maxabs"
    /\ \A r \in 1..Len(norm_features_arr) : \A c \in NormCols :
          ~norm_features_arr[r][c].nan
    /\ Replay # norm_returned.feats

ZscoreReplayed ==
    /\ norm_pc = "returned" /\ norm_method = "zscore"
    /\ \E r \in 1..Len(norm_features_arr) : norm_features_arr[r][1].nan
    /\ \E r \in 1..Len(norm_features_arr) : ~norm_features_arr[r][1].nan
    /\ \E r \in 1..Len(norm_returned.feats) : norm_returned.feats[r][2].s = -1
    /\ Replay = norm_returned.feats

\* The moments of a returned column, computed from its entries alone.  The
\* entries of a z-scored column are rational multiples of one square root:
\* entry r is Coef(col, r) * sqrt(col[Ref(col)].sq).
RSqrt(q) == <<ISqrt(q[1]), ISqrt(q[2])>>
HasNaN(col) == \E r \in 1..Len(col) : col[r].nan
AllNaN(col) == \A r \in 1..Len(col) : col[r].nan
AllZero(col) == \A r \in 1..Len(col) : SIsZero(col[r])
Ref(col) == CHOOSE r \in 1..Len(col) : ~col[r].nan /\ col[r].s # 0
Coef(col, r) ==
    IF col[r].s = 0 THEN <<0, 1>>
    ELSE RMul(<<col[r].s, 1>>, RSqrt(RDiv(col[r].sq, col[Ref(col)].sq)))
\* the mean of the column is zero
MeanIsZero(col) ==
    /\ ~HasNaN(col)
    /\ AllZero(col) \/ RSum([r \in 1..Len(col) |-> Coef(col, r)]) = <<0, 1>>
\* the mean of the squares of the column: its variance when its mean is zero
MeanSquare(col) ==
    RDiv(RSum([r \in 1..Len(col) |-> col[r].sq]), <<Len(col), 1>>)

\* the known entries of an input column are all the same number
ConstantColumn(col) ==
    \A a, b \in 1..Len(Known(col)) : Known(col)[a].v = Known(col)[b].v

InCol(c) == Column(norm_features_arr, c)
OutCol(c) == Column(norm_returned.feats, c)

\* C11 (as stated): after 'zscore' every returned column has mean 0 and
\* standard deviation 1, except the columns that were constant, which are
\* all 0; no returned entry is NaN.
C11_ZscoreMeanZeroStdOne ==
    (norm_pc = "returned" /\ norm_method = "zscore") =>
        \A c \in NormCols :
            /\ MeanIsZero(OutCol(c))
            /\ IF ConstantColumn(InCol(c)) THEN AllZero(OutCol(c))
               ELSE MeanSquare(OutCol(c)) = <<1, 1>>

\* C11 (amended): after 'zscore' a returned column with k >= 1 known
\* entries among its n has mean 0; it is all 0 when its known entries were
\* constant, and has variance k / n otherwise -- standard deviation 1 exactly
\* when the column had no unknown entry, less than 1 when it had some.  A
\* column with no known entry is returned as NaN.
C11_ZscoreMoments ==
    (norm_pc = "returned" /\ norm_method = "zscore") =>
        \A c \in NormCols :
            LET k == Len(Known(InCol(c)))
                n == Len(InCol(c))
            IN  IF k = 0 THEN AllNaN(OutCol(c))
                ELSE /\ MeanIsZero(OutCol(c))
                     /\ IF ConstantColumn(InCol(c)) THEN AllZero(OutCol(c))
                        ELSE MeanSquare(OutCol(c)) = Rat(k, n)

\* a 'zscore' call on a matrix with a complete non-constant column (returned
\* with standard deviation 1), and an incomplete non-constant one (returned
\* with variance 2/3)
C11_Witness ==
    /\ norm_pc = "returned" /\ norm_method = "zscore"
    /\ Len(norm_features_arr) = 3
    /\ ~HasNaN(InCol(2)) /\ ~ConstantColumn(InCol(2))
    /\ MeanIsZero(OutCol(2)) /\ MeanSquare(OutCol(2)) = <<1, 1>>
    /\ HasNaN(InCol(1)) /\ ~ConstantColumn(InCol(1))
    /\ MeanIsZero(OutCol(1)) /\ MeanSquare(OutCol(1)) = <<2, 3>>

---------------------------------------------------------------------------
\* The tracker when the oracle fails (SpecTrack)

\* the number of invocations of the oracle for frame f, failed ones included
InvocationsFor(f) ==
    Cardinality({k \in 1..Len(oracle_calls) : oracle_calls[k].frame = f})
        + Cardinality({k \in 1..Len(failed_calls) : failed_calls[k] = f})

\* C12: the oracle is invoked at most once for a frame, also when the
\* invocation fails; and once an invocation has failed for frame i the
\* function has left with the exception: it is at "raised", it has returned
\* nothing, it has appended no pose for frame i and it has invoked the oracle
\* for no later frame.
C12_NoRetryFailurePropagates ==
    /\ \A f \in 0..MaxVideoFrames : InvocationsFor(f) <= 1
    /\ pc = "raised" <=> failed_calls # <<>>
    /\ failed_calls # <<>> =>
          /\ Len(failed_calls) = 1
          /\ returned = <<>>
          /\ Len(keypoints_sequence) = failed_calls[1]
          /\ \A k \in 1..Len(oracle_calls) : oracle_calls[k].frame < failed_calls[1]

\* the oracle failed for the second frame of a video, after one answer
C12_Witness ==
    /\ pc = "raised" /\ failed_calls = <<1>>
    /\ Len(oracle_calls) = 1 /\ Len(keypoints_sequence) = 1
    /\ num_frames > 2

---------------------------------------------------------------------------
\* The segmenter on short sequences (SpecSeg)

\* detect_swings_from_keypoints has been called and has returned or raised
Called == seg_pc \in {"returned", "raised", "done"}

\* C13: for a sequence with fewer frames than min_swing_duration, the empty
\* one included, the call returns the empty list, does not raise and
\* computes neither speeds nor a threshold.
C13_TooShortReturnsEmpty ==
    (Called /\ Len(keypoints_sequence) < min_swing_duration) =>
        /\ seg_pc # "raised"
        /\ valid_swings = <<>>
        /\ seg_computed = {}

\* a call on a single frame with min_swing_duration = 2 has returned
C13_Witness ==
    /\ seg_pc = "returned"
    /\ Len(keypoints_sequence) = 1 /\ min_swing_duration = 2
    /\ valid_swings = <<>> /\ seg_computed = {}

\* a call on the empty sequence has returned
EmptySequenceReturned ==
    /\ seg_pc = "returned" /\ Len(keypoints_sequence) = 0
    /\ valid_swings = <<>> /\ seg_computed = {}

\* a call on a single frame with min_swing_duration = 1 is not returned
\* early and may raise
SingleFrameMayRaise ==
    seg_pc = "raised" /\ Len(keypoints_sequence) = 1 /\ min_swing_duration = 1

---------------------------------------------------------------------------
\* The run finder (SpecRuns).  Indices are those of the code, from 0:
\* boolean_array[k + 1] is the code's boolean_array[k].
IsTrue(k) == k \in 0..(Len(boolean_array) - 1) /\ boolean_array[k + 1]
SegmentsOf(k) == {n \in 1..Len(segments) : segments[n][1] <= k /\ k < segments[n][2]}

\* C14: the returned intervals are exactly the maximal runs of true, as
\* half-open intervals in ascending order: inside an interval every index
\* is true; every true index is in exactly one interval; the index before a
\* start and the index at an end are false or out of range; a run that
\* reaches the last index ends at len(array); two runs with one false index
\* between them are two intervals.
C14_MaximalRuns ==
    runs_pc = "returned" =>
        /\ \A n \in 1..Len(segments) :
              /\ 0 <= segments[n][1] /\ segments[n][1] < segments[n][2]
              /\ segments[n][2] <= Len(boolean_array)
              /\ \A k \in segments[n][1]..(segments[n][2] - 1) : IsTrue(k)
              /\ ~IsTrue(segments[n][1] - 1)
              /\ ~IsTrue(segments[n][2])
        /\ \A k \in 0..(Len(boolean_array) - 1) :
              IsTrue(k) => Cardinality(SegmentsOf(k)) = 1
        /\ \A n \in 1..(Len(segments) - 1) : segments[n][2] < segments[n + 1][1]
        /\ (Len(boolean_array) > 0 /\ IsTrue(Len(boolean_array) - 1)) =>
              (Len(segments) > 0 /\ segments[Len(segments)][2] = Len(boolean_array))

\* two runs separated by one false index, the second reaching the end
C14_Witness ==
    /\ runs_pc = "returned"
    /\ boolean_array = <<FALSE, TRUE, TRUE, FALSE, TRUE, TRUE>>
    /\ segments = <<<<1, 3>>, <<4, 6>>>>

---------------------------------------------------------------------------
\* The torso visibility rule (SpecTrack)

\* a joint is confident when its confidence is not below the threshold
Confident(c) == ~(c < MIN_CROP_KEYPOINT_SCORE)
\* ... and when it is above the threshold
StrictlyConfident(c) == c > MIN_CROP_KEYPOINT_SCORE

TorsoVisibleNotBelow(kp) ==
    /\ Confident(kp[left_hip].c) \/ Confident(kp[right_hip].c)
    /\ Confident(kp[left_shoulder].c) \/ Confident(kp[right_shoulder].c)
TorsoVisibleAbove(kp) ==
    /\ StrictlyConfident(kp[left_hip].c) \/ StrictlyConfident(kp[right_hip].c)
    /\ StrictlyConfident(kp[left_shoulder].c)
          \/ StrictlyConfident(kp[right_shoulder].c)

\* C15: the region computed after a pose is the default region if the torso
\* is not visible and the region of the torso geometry if it is, where the
\* torso is visible when a hip and a shoulder are confident and a joint is
\* confident when its confidence is not below the threshold (a confidence
\* equal to the threshold counts).
C15_TorsoVisibilityRule ==
    \A k \in {LastCall} \ {0} :
        RegionAfter(k) =
            IF TorsoVisibleNotBelow(PoseOf(k))
            THEN torso_crop_region(PoseOf(k), image_height, image_width)
            ELSE init_crop_region(image_height, image_width)

\* What holds of the code: the same with "above the threshold" for
\* "not below" in the visibility test.
TorsoVisibilityStrictRule ==
    \A k \in {LastCall} \ {0} :
        RegionAfter(k) =
            IF TorsoVisibleAbove(PoseOf(k))
            THEN torso_crop_region(PoseOf(k), image_height, image_width)
            ELSE init_crop_region(image_height, image_width)

\* both hips exactly at the threshold: the default region is returned where
\* the torso geometry gives another
HipsAtThresholdNotVisible ==
    \E k \in {LastCall} \ {0} :
        /\ PoseOf(k)[left_hip].c = MIN_CROP_KEYPOINT_SCORE
        /\ PoseOf(k)[right_hip].c = MIN_CROP_KEYPOINT_SCORE
        /\ RegionAfter(k) = init_crop_region(image_height, image_width)
        /\ torso_crop_region(PoseOf(k), image_height, image_width)
              # init_crop_region(image_height, image_width)

\* one hip and one shoulder low, the others high: the torso geometry is used
OneHipOneShoulderVisible ==
    \E k \in {LastCall} \ {0} :
        /\ PoseOf(k)[left_hip].c < MIN_CROP_KEYPOINT_SCORE
        /\ PoseOf(k)[right_shoulder].c < MIN_CROP_KEYPOINT_SCORE
        /\ RegionAfter(k) = torso_crop_region(PoseOf(k), image_height, image_width)
        /\ RegionAfter(k) # init_crop_region(image_height, image_width)

---------------------------------------------------------------------------
\* The window of the feature builder (SpecFeat)

IsZeroOrNaN(v) == IsNaN(v) \/ v = Num(0)

\* C16: when a frame is about to be processed, the window holds the frame
\* before it as prev_xy (None when there is none) and the frame two before
\* it as prev2_xy (None when there is none); so the speeds of the first
\* frame and the acceleration magnitudes of the first two are zero where
\* they are not masked, and later ones are those of the true positions at
\* t-1 and t-2.  This holds in every call: a call starts with an empty
\* window.
C16_WindowHoldsPreviousFrames ==
    fe_pc = "loop" =>
        LET n == Len(keypoints_sequence)
        IN  /\ prev_xy = IF n >= 1 THEN FrameAt(n).xy ELSE None
            /\ prev2_xy = IF n >= 2 THEN FrameAt(n - 1).xy ELSE None
            /\ Len(features_list) = n
            /\ \A t \in Rows : \A j \in 5..16 :
                  /\ t = 1 => IsZeroOrNaN(Entry(t, 2 * (j - 5)))
                  /\ t <= 2 => IsZeroOrNaN(Entry(t, 2 * (j - 5) + 1))
                  /\ IsNaN(Entry(t, 2 * (j - 5)))
                        \/ Entry(t, 2 * (j - 5)) = Num(Norm(VelAt(t, j)))
                  /\ IsNaN(Entry(t, 2 * (j - 5) + 1))
                        \/ Entry(t, 2 * (j - 5) + 1) = Num(Norm(AccAt(t, j)))

\* the second call, after three frames of a moving joint: zero speed at the
\* first frame although the joint stands elsewhere than at the end of the
\* call before could have left it, non-zero speed at the second, zero speed
\* and non-zero acceleration at the third
C16_Witness ==
    /\ fe_pc = "loop" /\ fe_call = 2
    /\ Len(keypoints_sequence) = 3
    /\ FrameAt(1).xy # FrameAt(2).xy /\ FrameAt(2).xy = FrameAt(3).xy
    /\ prev_xy = FrameAt(3).xy /\ prev2_xy = FrameAt(2).xy
    /\ \E j \in 5..16 :
          /\ Entry(1, 2 * (j - 5)) = Num(0) /\ Entry(1, 2 * (j - 5) + 1) = Num(0)
          /\ Entry(2, 2 * (j - 5)).k = "num" /\ Entry(2, 2 * (j - 5)).a > 0
          /\ Entry(2, 2 * (j - 5) + 1) = Num(0)
          /\ Entry(3, 2 * (j - 5)) = Num(0)
          /\ Entry(3, 2 * (j - 5) + 1).k = "num" /\ Entry(3, 2 * (j - 5) + 1).a > 0

---------------------------------------------------------------------------
\* How much of a video can be high-motion (SpecSeg)

\* ceil(m / 4) for m >= 0
CeilQuarter(m) == (m + 3) \div 4

\* the number of high-motion positions of the video
HighCount ==
    LET high == high_velocity_frames(keypoints_sequence) @@ <<>>
    IN  Cardinality({k \in DOMAIN high : high[k]})

\* the total duration of the segments
RECURSIVE TotalDuration(_)
TotalDuration(segs) ==
    IF segs = <<>> THEN 0
    ELSE (Head(segs)[2] - Head(segs)[1]) + TotalDuration(Tail(segs))

\* every smoothed speed of the video is the same
ConstantSmoothedSpeed ==
    LET smooth == smooth_signal_x5(wrist_velocities(keypoints_sequence)) @@ <<>>
    IN  \A k, m \in DOMAIN smooth : smooth[k] = smooth[m]

\* the call has ended, by a return or by the percentile's exception
Ended == seg_pc \in {"returned", "raised", "done"}

\* C17: for a video of N >= 2 frames at most ceil((N-2)/4) positions are
\* strictly above the 75th percentile of the smoothed speeds, and the
\* returned segments together are no longer than that; no segment is
\* returned for a video of fewer than 4*min_swing_duration - 1 frames, nor
\* for one whose smoothed speed is constant.
C17_QuarterBound ==
    LET N == Len(keypoints_sequence)
    IN  /\ N >= 2 => HighCount <= CeilQuarter(N - 2)
        /\ Ended /\ N >= 2 => TotalDuration(valid_swings) <= HighCount
        /\ Ended /\ N < 4 * min_swing_duration - 1 => valid_swings = <<>>
        /\ Ended /\ N >= 2 /\ ConstantSmoothedSpeed => valid_swings = <<>>

\* the bound is met: a video of exactly 4*min_swing_duration - 1 frames, with
\* min_swing_duration above one, whose high-motion positions are as many as
\* the bound allows and form the one returned segment
C17_Witness ==
    LET N == Len(keypoints_sequence)
    IN  /\ seg_pc = "returned"
        /\ min_swing_duration > 1
        /\ N = 4 * min_swing_duration - 1
        /\ HighCount = CeilQuarter(N - 2)
        /\ Len(valid_swings) = 1
        /\ TotalDuration(valid_swings) = HighCount

\* a video one frame shorter than that, with a moving wrist, gives nothing
JustBelowFrameBound ==
    /\ seg_pc = "returned"
    /\ min_swing_duration > 1
    /\ Len(keypoints_sequence) = 4 * min_swing_duration - 2
    /\ HighCount > 0
    /\ valid_swings = <<>>

\* a wrist moving at a constant non-zero speed gives nothing
ConstantMotionNoSegment ==
    /\ seg_pc = "returned"
    /\ Len(keypoints_sequence) >= 3
    /\ ~too_short(keypoints_sequence, min_swing_duration)
    /\ ConstantSmoothedSpeed
    /\ \E k \in 1..(Len(keypoints_sequence) - 1) :
          wrist_velocities(keypoints_sequence)[k] > 0
    /\ valid_swings = <<>>

---------------------------------------------------------------------------
\* Unknown entries of the returned matrix (SpecNorm)

\* C18: for every input matrix and both methods, the matrix returned by
\* normalize_features has no unknown (NaN) entry, a column whose entries
\* were all unknown included.
C18_NoUnknownReturned ==
    norm_pc = "returned" =>
        \A c \in NormCols : ~HasNaN(OutCol(c))

\* what the code does give: a returned column has an unknown entry exactly
\* when the input column had no known entry, and then all of it is unknown,
\* with an unknown mean and an unknown standard deviation returned for it
UnknownReturnedIffNoneKnown ==
    norm_pc = "returned" =>
        \A c \in NormCols :
            IF Known(InCol(c)) = <<>>
            THEN /\ AllNaN(OutCol(c))
                 /\ norm_returned.col_mean[c].nan
                 /\ norm_returned.col_std_safe[c].nan
            ELSE ~HasNaN(OutCol(c))

\* an unknown entry among known ones has been replaced by a number
UnknownEntryImputed ==
    /\ norm_pc = "returned"
    /\ \E c \in NormCols :
          /\ HasNaN(InCol(c)) /\ Len(Known(InCol(c))) >= 2
          /\ ~ConstantColumn(InCol(c))
          /\ ~HasNaN(OutCol(c))

\* a column of several rows, all unknown, returned unknown by 'maxabs'
AllUnknownColumnReturned ==
    /\ norm_pc = "returned" /\ norm_method = "maxabs"
    /\ \E c \in NormCols :
          /\ Len(InCol(c)) >= 2 /\ AllNaN(InCol(c)) /\ AllNaN(OutCol(c))

=============================================================================
